---- MODULE Spec2Model ----
(***************************************************************************)
(* A model of haca3/test.py: the module-level functions                    *)
(* normalize_intensity, obtain_single_image, load_source_images and main,  *)
(* each called once by an arbitrary client.  The model starts after the    *)
(* module's import statements (test.py:1-8).                               *)
(*                                                                         *)
(* Representation of values                                                *)
(*   float      a fraction [k, num, den] with k = "fin" (den > 0), or one  *)
(*              of the IEEE specials "nan", "inf", "-inf".  Arithmetic is  *)
(*              exact: the rounding of float32/float64 is not modelled.    *)
(*   ndarray    [shape, runs]: the shape and the C-order flattened data as *)
(*              runs [v, n] (n consecutive elements equal to v).           *)
(*   canvas     an array built by np.zeros / np.ones and at most one slice *)
(*              assignment: [shape, base, patch], patch = [k = "None"] or  *)
(*              [k = "patch", lo, hi, src] (cells lo <= i < hi hold src).  *)
(*   tensor     [arr, axes]: a canvas seen through an axis permutation;    *)
(*              tensor axis j is canvas axis axes[j].                      *)
(* Python's 0-based positions of a 4-list or 3-tuple are 1..4 and 1..3     *)
(* here; indices INTO an array axis (slice bounds) stay 0-based.           *)
(***************************************************************************)
EXTENDS Integers, Sequences, FiniteSets, TLC

VARIABLES pc, call, frame, ret, exc, stdout, haca3, harmonize_calls, nib_loads

vars == <<pc, call, frame, ret, exc, stdout, haca3, harmonize_calls, nib_loads>>

(* ---- bounds of the explored inputs ------------------------------------ *)
MaxRuns == 2
MaxVal == 3

(* ---- program constants ------------------------------------------------ *)
GRID == 224
HALF == 112
PCTL == 99
DROPOUT_ABSENT == 100000
DROPOUT_PRESENT == 0

None == [k |-> "None"]
IsNone(x) == x.k = "None"

(* ---- floats ----------------------------------------------------------- *)
Frac(n, d) == [k |-> "fin", num |-> n, den |-> d]
NaN == [k |-> "nan", num |-> 0, den |-> 1]
PosInf == [k |-> "inf", num |-> 1, den |-> 1]
NegInf == [k |-> "-inf", num |-> -1, den |-> 1]
Abs(x) == IF x < 0 THEN -x ELSE x
Sign(x) == IF x < 0 THEN -1 ELSE IF x > 0 THEN 1 ELSE 0

(* comparisons of finite floats, by cross-multiplication *)
FLess(a, b) == a.num * b.den < b.num * a.den
FLeq(a, b) == a.num * b.den <= b.num * a.den

FAdd(a, b) == Frac(a.num * b.den + b.num * a.den, a.den * b.den)
FSub(a, b) == Frac(a.num * b.den - b.num * a.den, a.den * b.den)
FMul(a, b) ==
    IF a.k = "fin" /\ b.k = "fin" THEN Frac(a.num * b.num, a.den * b.den)
    ELSE NaN

(* numpy true division of finite floats: x/0 is nan, inf or -inf, with a   *)
(* RuntimeWarning and no exception                                         *)
np_divide(a, b) ==
    IF b.num = 0
    THEN IF a.num = 0 THEN NaN ELSE IF a.num > 0 THEN PosInf ELSE NegInf
    ELSE Frac(a.num * b.den * Sign(b.num), a.den * Abs(b.num))

np_maximum(a, b) == IF FLess(a, b) THEN b ELSE a
np_minimum(a, b) == IF FLess(b, a) THEN b ELSE a

(* np.clip(x, a_min, a_max) is np.minimum(a_max, np.maximum(x, a_min)) *)
(* faulty variant: clips to the unit range instead of [a_min, a_max] *)
np_clip_unit(x, a_min, a_max) == np_minimum(Frac(1, 1), np_maximum(x, a_min))
(* np.clip as numpy defines it *)
np_clip(x, a_min, a_max) == np_minimum(a_max, np_maximum(x, a_min))

(* ---- ndarrays --------------------------------------------------------- *)
RECURSIVE Size(_)
Size(runs) == IF runs = <<>> THEN 0 ELSE Head(runs).n + Size(Tail(runs))

RECURSIVE CountLeq(_, _)
CountLeq(runs, v) ==
    IF runs = <<>> THEN 0
    ELSE (IF FLeq(Head(runs).v, v) THEN Head(runs).n ELSE 0) + CountLeq(Tail(runs), v)

RECURSIVE CountLess(_, _)
CountLess(runs, v) ==
    IF runs = <<>> THEN 0
    ELSE (IF FLess(Head(runs).v, v) THEN Head(runs).n ELSE 0) + CountLess(Tail(runs), v)

(* the element at 0-based position idx of the sorted data *)
SortedAt(runs, idx) ==
    LET i == CHOOSE j \in DOMAIN runs :
                 CountLess(runs, runs[j].v) <= idx /\ idx < CountLeq(runs, runs[j].v)
    IN runs[i].v

(* np.percentile(a, q), default method "linear": the virtual index         *)
(* q/100 * (N - 1), interpolated between its two neighbours                *)
np_percentile(runs, q) ==
    LET pos == q * (Size(runs) - 1)
        lo == pos \div 100
        hi == IF lo + 1 < Size(runs) THEN lo + 1 ELSE lo
        a == SortedAt(runs, lo)
        b == SortedAt(runs, hi)
    IN FAdd(a, FMul(FSub(b, a), Frac(pos % 100, 100)))

(* ---- normalize_intensity (test.py:11-15) ------------------------------ *)
normalize_intensity(image) ==
    LET thresh == np_percentile(image.runs, PCTL)
        clipped == [i \in DOMAIN image.runs |->
                      [v |-> np_clip(image.runs[i].v, Frac(0, 1), thresh),
                       n |-> image.runs[i].n]]
        divided == [i \in DOMAIN clipped |->
                      [v |-> np_divide(clipped[i].v, thresh), n |-> clipped[i].n]]
    IN [exc |-> "none",
        image |-> [shape |-> image.shape, runs |-> divided],
        norm_val |-> thresh]

(* ---- canvases and tensors --------------------------------------------- *)
np_zeros(shape) == [shape |-> shape, base |-> Frac(0, 1), patch |-> None]
np_ones(shape) == [shape |-> shape, base |-> Frac(1, 1), patch |-> None]

(* Python's slice(start, stop).indices(len), step 1: a negative bound      *)
(* counts from the end, then both are clamped to 0..len                    *)
SliceBound(i, len) ==
    IF i < 0 THEN (IF i + len < 0 THEN 0 ELSE i + len)
    ELSE (IF i > len THEN len ELSE i)
SliceLen(start, stop, len) ==
    IF SliceBound(stop, len) > SliceBound(start, len)
    THEN SliceBound(stop, len) - SliceBound(start, len) ELSE 0

(* the bounds test.py:26-28 writes for an axis of size n *)
(* faulty variant of PadStart: the odd unit on the lower side *)
PadStartLow(n) == HALF - (n \div 2) - (n % 2)
PadStart(n) == HALF - (n \div 2)
PadStop(n) == HALF + (n \div 2) + (n % 2)

(* numpy broadcasting of a value onto an assignment target of equal rank   *)
(* faulty variant of Broadcasts: any value is taken, cut to fit *)
BroadcastsAlways(src_shape, dst_shape) == TRUE
Broadcasts(src_shape, dst_shape) ==
    \A a \in DOMAIN dst_shape : src_shape[a] = dst_shape[a] \/ src_shape[a] = 1

(* canvas[start1:stop1, start2:stop2, start3:stop3] = value *)
setitem(canvas, start, stop, value) ==
    LET lo == [a \in DOMAIN canvas.shape |-> SliceBound(start[a], canvas.shape[a])]
        len == [a \in DOMAIN canvas.shape |-> SliceLen(start[a], stop[a], canvas.shape[a])]
    IN IF Broadcasts(value.shape, len)
       THEN [exc |-> "none",
             arr |-> [canvas EXCEPT !.patch =
                        [k |-> "patch", lo |-> lo,
                         hi |-> [a \in DOMAIN lo |-> lo[a] + len[a]], src |-> value]]]
       ELSE [exc |-> "ValueError"]

(* torchvision ToTensor on an (H, W, C) float32 ndarray: transpose((2,0,1)) *)
(* and no rescaling                                                         *)
ToTensor(arr) == [arr |-> arr, axes |-> <<3, 1, 2>>]
(* tensor.permute(dims), dims given 1-based *)
permute(t, dims) == [t EXCEPT !.axes = [j \in DOMAIN dims |-> t.axes[dims[j]]]]

(* ---- files ------------------------------------------------------------ *)
(* A path stands for the file it names: [k = "path", name, shape, bg, fg]  *)
(* holds a volume of that shape whose voxels are bg, but the last one, fg. *)
FileRuns(path) ==
    LET N == path.shape[1] * path.shape[2] * path.shape[3]
    IN IF N > 1 THEN <<[v |-> Frac(path.bg, 1), n |-> N - 1], [v |-> Frac(path.fg, 1), n |-> 1]>>
       ELSE <<[v |-> Frac(path.fg, 1), n |-> 1]>>

nib_load(path) ==
    [data |-> [shape |-> path.shape, runs |-> FileRuns(path)],
     affine |-> [affine_of |-> path.name],
     header |-> [header_of |-> path.name]]

(* ---- obtain_single_image (test.py:18-29) ------------------------------ *)
obtain_single_image(image_path) ==
    LET image_obj == nib_load(image_path)
        n == normalize_intensity(image_obj.data)
        image_vol == n.image
        shape == image_vol.shape
        padded == setitem(np_zeros(<<GRID, GRID, GRID>>),
                          [a \in 1..3 |-> PadStart(shape[a])],
                          [a \in 1..3 |-> PadStop(shape[a])],
                          image_vol)
    IN IF padded.exc # "none" THEN [exc |-> padded.exc]
       ELSE [exc |-> "none",
             image |-> ToTensor(padded.arr),
             affine |-> image_obj.affine,
             header |-> image_obj.header,
             norm_val |-> n.norm_val]

(* ---- load_source_images (test.py:31-41) ------------------------------- *)
Unbound == [k |-> "Unbound"]

(* the locals after lines 32-33, contrast_id at the loop's first position *)
lsi_init(image_paths) ==
    [k |-> "load_source_images",
     image_paths |-> image_paths,
     contrast_id |-> 1,
     source_images |-> <<>>,
     contrast_dropout |-> [i \in 1..4 |-> DROPOUT_ABSENT],
     image_affine |-> Unbound,
     image_header |-> Unbound]

(* faulty variant: line 37 forgotten *)
lsi_present_keep_cost(loc, r) ==
    [loc EXCEPT !.source_images = Append(@, permute(r.image, <<3, 2, 1>>)),
                !.image_affine = r.affine,
                !.image_header = r.header,
                !.contrast_id = @ + 1]
(* faulty variant: the first path's affine and header are kept *)
lsi_present_first_affine(loc, r) ==
    [loc EXCEPT !.source_images = Append(@, permute(r.image, <<3, 2, 1>>)),
                !.contrast_dropout[loc.contrast_id] = DROPOUT_PRESENT,
                !.image_affine = IF loc.image_affine = Unbound THEN r.affine ELSE @,
                !.image_header = IF loc.image_header = Unbound THEN r.header ELSE @,
                !.contrast_id = @ + 1]
(* one iteration with a path (lines 36, 37, 40); r is what                 *)
(* obtain_single_image returned, its norm_val is dropped (the _ of line    *)
(* 36); .float() leaves a float32 tensor as it is                          *)
lsi_present(loc, r) ==
    [loc EXCEPT !.source_images = Append(@, permute(r.image, <<3, 2, 1>>)),
                !.contrast_dropout[loc.contrast_id] = DROPOUT_PRESENT,
                !.image_affine = r.affine,
                !.image_header = r.header,
                !.contrast_id = @ + 1]

(* one iteration without a path (lines 39, 40) *)
lsi_absent(loc) ==
    [loc EXCEPT !.source_images =
                    Append(@, permute(ToTensor(np_ones(<<GRID, GRID, GRID>>)), <<3, 2, 1>>)),
                !.contrast_id = @ + 1]

(* the tuple of line 41 *)
lsi_result(loc) ==
    [exc |-> "none",
     source_images |-> loc.source_images,
     contrast_dropout |-> loc.contrast_dropout,
     image_affine |-> loc.image_affine,
     image_header |-> loc.image_header]

(* ---- main (test.py:47-117) -------------------------------------------- *)
(* the Namespace parse_args returns at line 63 has one attribute per       *)
(* add_argument of lines 50-62; the client chooses the first six           *)
Namespace(t1, t2, pd, flair, target_image, target_theta) ==
    [t1 |-> t1, t2 |-> t2, pd |-> pd, flair |-> flair,
     target_image |-> target_image,
     target_theta |-> target_theta,
     target_eta |-> [k |-> "str", s |-> "0.3,0.5"],
     out_dir |-> ".",
     file_name |-> "testing_subject.nii.gz",
     gpu_id |-> 0,
     num_batches |-> 4,
     save_intermediate |-> FALSE,
     pretrained_fusion |-> None]

(* the conditions of lines 69, 72 and 75 *)
NoSourceGiven(args) ==
    IsNone(args.t1) /\ IsNone(args.t2) /\ IsNone(args.pd) /\ IsNone(args.flair)
(* faulty variant of NoTargetGiven: tests target_eta, which has a default *)
NoTargetGivenEta(args) == IsNone(args.target_image) /\ IsNone(args.target_eta)
NoTargetGiven(args) == IsNone(args.target_image) /\ IsNone(args.target_theta)
BothTargetsGiven(args) == ~IsNone(args.target_image) /\ ~IsNone(args.target_theta)

(* parser.error(message): usage and message on stderr, then exit status 2 *)
parser_error(message) == [exc |-> "SystemExit", code |-> 2, message |-> message]

(* ---- the client's inputs ---------------------------------------------- *)
Vals == (0 - MaxVal) .. MaxVal
RunLens == {1, 100}
Run == [v : {Frac(x, 1) : x \in Vals}, n : RunLens]
RunSeqs == UNION {[1..m -> Run] : m \in 1..MaxRuns}
Arrays == {[shape |-> <<Size(r)>>, runs |-> r] : r \in RunSeqs}

AxisSizes == {1, 2, 3, GRID - 1, GRID, GRID + 1, GRID + 2}
Patterns == {<<0, 0>>, <<1, 3>>, <<0 - 1, 2>>}
Path(name, shape, pat) ==
    [k |-> "path", name |-> name, shape |-> shape, bg |-> pat[1], fg |-> pat[2]]
FarOversize == {<<2 * GRID + 1, 1, 1>>, <<1, 1000, 2>>, <<2, 2, 3 * GRID + 1>>}
AnyPaths ==
    {Path("image.nii.gz", <<r, c, s>>, pat) :
        r \in AxisSizes, c \in AxisSizes, s \in AxisSizes, pat \in Patterns}
    \cup {Path("image.nii.gz", shape, <<1, 3>>) : shape \in FarOversize}

SubjectT1 == Path("sub_T1.nii.gz", <<3, 2, 1>>, <<1, 3>>)
SubjectT2 == Path("sub_T2.nii.gz", <<GRID, GRID, GRID>>, <<0, 2>>)
SubjectPD == Path("sub_PD.nii.gz", <<2, GRID - 1, 4>>, <<0 - 1, 2>>)
SubjectFLAIR == Path("sub_FLAIR.nii.gz", <<1, 1, 1>>, <<0, 0>>)
SubjectBig == Path("big_T1.nii.gz", <<GRID + 1, 10, 10>>, <<1, 3>>)
SubjectPaths == {SubjectT1, SubjectT2, SubjectPD, SubjectFLAIR, SubjectBig}
Slots == {None} \cup SubjectPaths
TargetLists ==
    {None,
     [k |-> "list", items |-> <<Path("site_T1.nii.gz", <<4, 4, 4>>, <<1, 3>>)>>],
     [k |-> "list", items |-> <<Path("site_T1.nii.gz", <<4, 4, 4>>, <<1, 3>>),
                                Path("site_T2.nii.gz", <<5, 4, 4>>, <<1, 2>>)>>]}
Thetas == {None, [k |-> "str", s |-> "0.1,0.2"]}

(* ---- the client ------------------------------------------------------- *)
Init ==
    /\ pc = "ready"
    /\ call = [fn |-> "none"]
    /\ frame = None
    /\ ret = None
    /\ exc = "none"
    /\ stdout = <<>>
    /\ haca3 = None
    /\ harmonize_calls = <<>>
    /\ nib_loads = <<>>

Finish(r) ==
    /\ pc' = IF r.exc = "none" THEN "returned" ELSE "raised"
    /\ exc' = r.exc
    /\ ret' = r

Call_normalize_intensity ==
    \E image \in Arrays :
        /\ pc = "ready"
        /\ call' = [fn |-> "normalize_intensity", image |-> image]
        /\ Finish(normalize_intensity(image))
        /\ UNCHANGED <<frame, stdout, haca3, harmonize_calls, nib_loads>>

Call_obtain_single_image ==
    \E image_path \in AnyPaths :
        /\ pc = "ready"
        /\ call' = [fn |-> "obtain_single_image", image_path |-> image_path]
        /\ Finish(obtain_single_image(image_path))
        /\ nib_loads' = <<image_path.name>>
        /\ UNCHANGED <<frame, stdout, haca3, harmonize_calls>>

(* lines 31-33 *)
Call_load_source_images ==
    \E p1 \in Slots, p2 \in Slots, p3 \in Slots, p4 \in Slots :
        /\ pc = "ready"
        /\ call' = [fn |-> "load_source_images", image_paths |-> <<p1, p2, p3, p4>>]
        /\ frame' = lsi_init(<<p1, p2, p3, p4>>)
        /\ pc' = "lsi_34"
        /\ UNCHANGED <<ret, exc, stdout, haca3, harmonize_calls, nib_loads>>

(* lines 34-37, 40: the next slot holds a path; an exception of            *)
(* obtain_single_image leaves the function                                 *)
lsi_iter_present ==
    /\ pc = "lsi_34"
    /\ frame.contrast_id <= Len(frame.image_paths)
    /\ ~IsNone(frame.image_paths[frame.contrast_id])
    /\ LET image_path == frame.image_paths[frame.contrast_id]
           r == obtain_single_image(image_path)
       IN /\ nib_loads' = Append(nib_loads, image_path.name)
          /\ IF r.exc # "none"
             THEN Finish([exc |-> r.exc]) /\ UNCHANGED frame
             ELSE frame' = lsi_present(frame, r) /\ UNCHANGED <<pc, ret, exc>>
    /\ UNCHANGED <<call, stdout, haca3, harmonize_calls>>

(* lines 34-35, 38-40: the next slot is None *)
lsi_iter_absent ==
    /\ pc = "lsi_34"
    /\ frame.contrast_id <= Len(frame.image_paths)
    /\ IsNone(frame.image_paths[frame.contrast_id])
    /\ frame' = lsi_absent(frame)
    /\ UNCHANGED <<pc, call, ret, exc, stdout, haca3, harmonize_calls, nib_loads>>

(* line 41 reads image_affine and image_header, which are unassigned when  *)
(* no slot held a path                                                     *)
lsi_return ==
    /\ pc = "lsi_34"
    /\ frame.contrast_id > Len(frame.image_paths)
    /\ IF frame.image_affine = Unbound \/ frame.image_header = Unbound
       THEN Finish([exc |-> "UnboundLocalError"])
       ELSE Finish(lsi_result(frame))
    /\ UNCHANGED <<call, frame, stdout, haca3, harmonize_calls, nib_loads>>

(* lines 47-66: parse the arguments, print the banner *)
Call_main ==
    \E t1 \in {None, SubjectT1}, t2 \in {None, SubjectT2},
       pd \in {None, SubjectPD}, flair \in {None, SubjectFLAIR},
       target_image \in TargetLists, target_theta \in Thetas :
        /\ pc = "ready"
        /\ call' = [fn |-> "main",
                    args |-> Namespace(t1, t2, pd, flair, target_image, target_theta)]
        /\ stdout' = <<"========== BEGIN HACA3 HARMONIZATION ==========">>
        /\ pc' = "main_69"
        /\ UNCHANGED <<frame, ret, exc, haca3, harmonize_calls, nib_loads>>

(* lines 69-70 *)
main_check_sources ==
    /\ pc = "main_69"
    /\ IF NoSourceGiven(call.args)
       THEN Finish(parser_error("At least one source image must be provided."))
       ELSE pc' = "main_72" /\ UNCHANGED <<ret, exc>>
    /\ UNCHANGED <<call, frame, stdout, haca3, harmonize_calls, nib_loads>>

(* lines 72-73 *)
main_check_target ==
    /\ pc = "main_72"
    /\ IF NoTargetGiven(call.args)
       THEN Finish(parser_error("Target image OR target theta value should be provided."))
       ELSE pc' = "main_75" /\ UNCHANGED <<ret, exc>>
    /\ UNCHANGED <<call, frame, stdout, haca3, harmonize_calls, nib_loads>>

(* lines 75-76 *)
main_warn_both ==
    /\ pc = "main_75"
    /\ stdout' = IF BothTargetsGiven(call.args)
                 THEN Append(stdout, "Warning: Both \"target_image\" and \"target_theta\" are provided. Only \"target_image\" will be used...")
                 ELSE stdout
    /\ pc' = "main_79"
    /\ UNCHANGED <<call, frame, ret, exc, haca3, harmonize_calls, nib_loads>>

(* lines 79-83: the arguments of HACA3(...) are evaluated first, and       *)
(* args.pretrained_harmonization is an attribute only if parse_args set    *)
(* it.  Lines 50-62 define no such argument, so the statement raises and   *)
(* lines 86-117 (the loading and the haca3.harmonize call) are never run:  *)
(* harmonize_calls stays empty.                                            *)
main_init_model ==
    /\ pc = "main_79"
    /\ IF "pretrained_harmonization" \in DOMAIN call.args
       THEN /\ haca3' = [k |-> "HACA3", beta_dim |-> 5, theta_dim |-> 2, eta_dim |-> 2,
                         pretrained_harmonization |-> call.args.pretrained_harmonization,
                         gpu |-> call.args.gpu_id]
            /\ pc' = "main_86"
            /\ UNCHANGED <<ret, exc>>
       ELSE /\ Finish([exc |-> "AttributeError"])
            /\ UNCHANGED haca3
    /\ UNCHANGED <<call, frame, stdout, harmonize_calls, nib_loads>>

Next ==
    \/ Call_normalize_intensity
    \/ Call_obtain_single_image
    \/ Call_load_source_images
    \/ lsi_iter_present
    \/ lsi_iter_absent
    \/ lsi_return
    \/ Call_main
    \/ main_check_sources
    \/ main_check_target
    \/ main_warn_both
    \/ main_init_model

Spec == Init /\ [][Next]_vars

(* ======================================================================= *)
(* The claims                                                              *)
(* ======================================================================= *)
Ended == pc \in {"returned", "raised"}
InMain == call.fn = "main"
SourceArgs == <<call.args.t1, call.args.t2, call.args.pd, call.args.flair>>
AllSourcesAbsent == \A i \in 1..4 : SourceArgs[i].k = "None"
TargetImageAbsent == call.args.target_image.k = "None"
TargetThetaAbsent == call.args.target_theta.k = "None"
PassesValidation == ~AllSourcesAbsent /\ ~(TargetImageAbsent /\ TargetThetaAbsent)
DriverCalledOnce == pc = "returned" /\ Len(harmonize_calls) = 1

(* C1: a main call with at least one source, no target image and a target  *)
(* theta (and eta) of length 2 raises nothing after validation and calls   *)
(* haca3.harmonize with the supplied theta and eta.                        *)
C1_ThetaOnlyReachesDriver ==
    (InMain /\ Ended /\ ~AllSourcesAbsent /\ TargetImageAbsent /\ ~TargetThetaAbsent)
        => /\ DriverCalledOnce
           /\ harmonize_calls[1].target_theta = call.args.target_theta
           /\ harmonize_calls[1].target_eta = call.args.target_eta

(* C2: a main call given both a target image and a target theta prints the *)
(* warning, hands the image-derived target to the driver and reaches       *)
(* haca3.harmonize without raising.                                        *)
C2_BothGivenUsesImage ==
    (InMain /\ Ended /\ ~AllSourcesAbsent /\ ~TargetImageAbsent /\ ~TargetThetaAbsent)
        => /\ Len(stdout) = 2
           /\ DriverCalledOnce
           /\ harmonize_calls[1].target_images.k # "None"

(* C3: a main call with all four sources absent, or with target image and  *)
(* target theta both absent, never gets past validation: it ends in        *)
(* parser.error's exit, with no model built, no image loaded and no driver *)
(* call before it.                                                         *)
C3_ValidationFailsFast ==
    (InMain /\ (AllSourcesAbsent \/ (TargetImageAbsent /\ TargetThetaAbsent)))
        => /\ pc \in {"main_69", "main_72", "raised"}
           /\ pc = "raised" =>
                /\ exc = "SystemExit"
                /\ ret.code = 2
                /\ haca3.k = "None"
                /\ nib_loads = <<>>
                /\ harmonize_calls = <<>>
C3_Witness ==
    /\ InMain
    /\ ~AllSourcesAbsent
    /\ TargetImageAbsent /\ TargetThetaAbsent
    /\ pc = "raised"
    /\ exc = "SystemExit"

TensorShape(t) == [j \in DOMAIN t.axes |-> t.arr.shape[t.axes[j]]]
IsOnesVolume(t) ==
    /\ TensorShape(t) = <<224, 224, 224>>
    /\ t.arr.patch.k = "None"
    /\ t.arr.base = [k |-> "fin", num |-> 1, den |-> 1]
InLoad == call.fn = "load_source_images"

(* C4: when load_source_images returns, the dropout vector has 4 entries,  *)
(* entry i is 0.0 exactly for a present slot and 1e5 exactly for an absent *)
(* one, and the volume of every absent slot is all ones on 224x224x224.    *)
C4_DropoutCosts ==
    (InLoad /\ pc = "returned")
        => /\ DOMAIN ret.contrast_dropout = 1..4
           /\ Len(ret.source_images) = 4
           /\ \A i \in 1..4 :
                IF call.image_paths[i].k = "None"
                THEN ret.contrast_dropout[i] = 100000 /\ IsOnesVolume(ret.source_images[i])
                ELSE ret.contrast_dropout[i] = 0
C4_Witness ==
    /\ InLoad
    /\ pc = "returned"
    /\ call.image_paths[1].k = "path"
    /\ \A i \in 2..4 : call.image_paths[i].k = "None"
    /\ ret.contrast_dropout = <<0, 100000, 100000, 100000>>

InObtain == call.fn = "obtain_single_image"
Fits(shape) == \A a \in 1..3 : shape[a] <= 224
PlacedAt(off) ==
    LET shape == call.image_path.shape
        canvas == ret.image.arr
    IN /\ canvas.shape = <<224, 224, 224>>
       /\ canvas.base.k = "fin" /\ canvas.base.num = 0
       /\ canvas.patch.k = "patch"
       /\ canvas.patch.src.shape = shape
       /\ \A a \in 1..3 :
            /\ canvas.patch.lo[a] = off[a]
            /\ canvas.patch.hi[a] = off[a] + shape[a]
OffFloor(n) == (224 - n) \div 2
OffCentre(n) == 112 - (n \div 2)

(* C5 as stated: an input of shape (r, c, s) <= 224 lies, on each axis of  *)
(* size n, at [off, off + n) with off = (224 - n) // 2, zero elsewhere.    *)
C5_PlacedAtFloorOffset ==
    (InObtain /\ Ended /\ Fits(call.image_path.shape))
        => pc = "returned" /\ PlacedAt([a \in 1..3 |-> OffFloor(call.image_path.shape[a])])

(* C5 amended: an input of shape (r, c, s) <= 224 lies, on each axis of    *)
(* size n, at [off, off + n) with off = 112 - n // 2, zero elsewhere.      *)
C5_PlacedAtCentreOffset ==
    (InObtain /\ Ended /\ Fits(call.image_path.shape))
        => pc = "returned" /\ PlacedAt([a \in 1..3 |-> OffCentre(call.image_path.shape[a])])
C5_Witness ==
    /\ InObtain
    /\ pc = "returned"
    /\ call.image_path.shape = <<3, 223, 224>>
    /\ ret.image.arr.patch.lo = <<111, 1, 0>>
    /\ ret.image.arr.patch.hi = <<114, 224, 224>>

(* C6: obtain_single_image on a volume with an axis above 224 ends in an   *)
(* error and returns no volume.                                            *)
C6_OversizeRaises ==
    (InObtain /\ Ended /\ ~Fits(call.image_path.shape))
        => /\ pc = "raised"
           /\ exc = "ValueError"
           /\ "image" \notin DOMAIN ret
C6_Witness ==
    /\ InObtain
    /\ pc = "raised"
    /\ call.image_path.shape = <<226, 1, 224>>

InNormalize == call.fn = "normalize_intensity"
(* C7: normalize_intensity raises for a volume without a non-zero voxel.   *)
C7_EmptyVolumeRaises ==
    (InNormalize /\ Ended /\ \A i \in DOMAIN call.image.runs : call.image.runs[i].v.num = 0)
        => pc = "raised"

RoundTrips(i) ==
    LET back == FMul(ret.image.runs[i].v, ret.norm_val)
        orig == call.image.runs[i].v
    IN back.k = "fin" /\ back.num * orig.den = orig.num * back.den
BelowP99(i) ==
    call.image.runs[i].v.num * ret.norm_val.den < ret.norm_val.num * call.image.runs[i].v.den

(* C8 as stated: every voxel below the 99th percentile is given back by    *)
(* multiplying its normalized value by norm_val.                           *)
C8_RoundTripBelowP99 ==
    (InNormalize /\ pc = "returned")
        => \A i \in DOMAIN call.image.runs : BelowP99(i) => RoundTrips(i)

(* C8 amended: every voxel that is at least 0 and below the 99th           *)
(* percentile is given back by multiplying its normalized value by         *)
(* norm_val.                                                               *)
C8_RoundTripInRange ==
    (InNormalize /\ pc = "returned")
        => \A i \in DOMAIN call.image.runs :
              (call.image.runs[i].v.num >= 0 /\ BelowP99(i)) => RoundTrips(i)
C8_Witness ==
    /\ InNormalize
    /\ pc = "returned"
    /\ Len(call.image.runs) = 2
    /\ call.image.runs[1].v.num = 2 /\ call.image.runs[1].n = 1
    /\ call.image.runs[2].v.num = 3 /\ call.image.runs[2].n = 1
    /\ BelowP99(1) /\ RoundTrips(1)
    /\ ~BelowP99(2) /\ ~RoundTrips(2)

(* the norm_val of each present source, in slot order *)
RECURSIVE SourceNormVals(_)
SourceNormVals(paths) ==
    IF paths = <<>> THEN <<>>
    ELSE IF Head(paths).k = "None" THEN SourceNormVals(Tail(paths))
    ELSE <<normalize_intensity(nib_load(Head(paths)).data).norm_val>>
             \o SourceNormVals(Tail(paths))

LastPresent(paths) ==
    paths[CHOOSE i \in DOMAIN paths :
              paths[i].k = "path" /\ \A j \in DOMAIN paths : j > i => paths[j].k = "None"]

(* C10: when load_source_images returns, its affine and header are those   *)
(* of the last present slot; with all four slots absent it raises instead  *)
(* of returning.                                                           *)
C10_AffineOfLastPresent ==
    /\ (InLoad /\ pc = "returned")
          => /\ ret.image_affine = [affine_of |-> LastPresent(call.image_paths).name]
             /\ ret.image_header = [header_of |-> LastPresent(call.image_paths).name]
    /\ (InLoad /\ Ended /\ \A i \in 1..4 : call.image_paths[i].k = "None")
          => pc = "raised" /\ exc = "UnboundLocalError"
C10_Witness ==
    /\ InLoad
    /\ pc = "returned"
    /\ call.image_paths[1].k = "path"
    /\ call.image_paths[2].k = "path"
    /\ call.image_paths[2].name # call.image_paths[1].name
    /\ call.image_paths[3].k = "None" /\ call.image_paths[4].k = "None"
    /\ ret.image_affine = [affine_of |-> call.image_paths[2].name]

====
